---------------------------- MODULE Spec2Model ----------------------------
(***************************************************************************)
(* Waveform generator (src/code_4.c; src/unnamed/part_000 is the same      *)
(* program with other comments).                                           *)
(*                                                                         *)
(* Numbers.  The program computes in C float.  Here a float is an exact    *)
(* rational <<n, d>> with d > 0 in lowest terms, taken from small finite   *)
(* sets; rounding error of the arithmetic, infinities and NaN are outside   *)
(* the model.  An angle is kept as its coefficient of PI (phase_sin =      *)
(* <<1, 2>> is PI/2).  sinf has finite precision: it rounds its argument   *)
(* to a multiple of PI/AngleDen and its value to a multiple of 1/SinDen.   *)
(*                                                                         *)
(* Four specifications share the variables:                                *)
(*   SpecRender   calls of print_ascii_from_yvals on arbitrary arguments   *)
(*   SpecSample   calls of sample_base_waveform on arbitrary parameters    *)
(*   SpecDisplay  one *_plot or run_* call on arbitrary parameters         *)
(*   Spec         the interactive session started by main                  *)
(***************************************************************************)
EXTENDS Integers, Sequences, FiniteSets, TLC

VARIABLES fre_sin, fre_squ, fre_saw, fre_tra,
          amp_sin, amp_squ, amp_saw, amp_tra,
          phase_sin, duty_cycle, slope,
          pc, waveform_type, depth, out, yval, back,
          render, sampled, display

params == <<fre_sin, fre_squ, fre_saw, fre_tra,
            amp_sin, amp_squ, amp_saw, amp_tra,
            phase_sin, duty_cycle, slope>>

session == <<pc, waveform_type, depth, out, yval, back>>

vars == <<params, session, render, sampled, display>>

-----------------------------------------------------------------------------
(* Program constants *)

DEFAULT_SAMPLES == 100

TABLE_SAMPLES == 8

ASCII_ROWS == 21

(* Bounds of the model *)

MaxCols == 2

MaxRows == 4

MaxVal == 3

ValDen == 2

-----------------------------------------------------------------------------
(* Exact rationals standing for C floats *)

RECURSIVE GCD(_, _)
GCD(a, b) == IF b = 0 THEN a ELSE GCD(b, a % b)

Abs(n) == IF n < 0 THEN -n ELSE n

R(n, d) ==
    LET s == IF d < 0 THEN -1 ELSE 1
        g == GCD(Abs(n), Abs(d))
    IN  <<(s * n) \div g, (s * d) \div g>>

RInt(n) == <<n, 1>>

Zero == RInt(0)

One == RInt(1)

Two == RInt(2)

Half == <<1, 2>>

RAdd(a, b) == R(a[1] * b[2] + b[1] * a[2], a[2] * b[2])

RSub(a, b) == R(a[1] * b[2] - b[1] * a[2], a[2] * b[2])

RMul(a, b) == R(a[1] * b[1], a[2] * b[2])

RNeg(a) == <<-a[1], a[2]>>

RDiv(a, b) == R(a[1] * b[2], a[2] * b[1])

RLt(a, b) == a[1] * b[2] < b[1] * a[2]

RLe(a, b) == a[1] * b[2] <= b[1] * a[2]

RAbs(a) == <<Abs(a[1]), a[2]>>

(* the (int) cast: truncation toward zero *)
ToInt(a) == IF a[1] >= 0 THEN a[1] \div a[2] ELSE -((-a[1]) \div a[2])

(* fmodf(t, T): t - trunc(t/T)*T, the sign of the dividend *)
fmodf(t, T) == RSub(t, RMul(RInt(ToInt(RDiv(t, T))), T))

-----------------------------------------------------------------------------
(* print_ascii_from_yvals *)

(* a const float * argument: the null pointer or a buffer of floats *)
NULL == [null |-> TRUE, at |-> <<>>]

Buf(seq) == [null |-> FALSE, at |-> seq]

Blank == " "

Star == "*"

Dash == "-"

(* lines 349-352: vertical fraction of a value *)
FracOf(y, amp) ==
    IF amp # Zero THEN RDiv(RSub(amp, y), RMul(Two, amp)) ELSE Half

(* lines 353-354 *)
ClampFrac(frac) ==
    IF RLt(frac, Zero) THEN Zero
    ELSE IF RLt(One, frac) THEN One
    ELSE frac

(* lines 356-357 and 362-363 *)
ClampRow(row, rows) ==
    IF row < 0 THEN 0
    ELSE IF row >= rows THEN rows - 1
    ELSE row

(* RowOf without the clamps of lines 353-354 and 356-357 *)
RowOf_NoClamp(y, amp, rows) ==
    ToInt(RAdd(RMul(FracOf(y, amp), RInt(rows - 1)), Half))

(* RowOf truncating instead of rounding: the + 0.5f of line 355 dropped *)
RowOf_Truncated(y, amp, rows) ==
    ClampRow(ToInt(RMul(ClampFrac(FracOf(y, amp)), RInt(rows - 1))), rows)

(* lines 348-357: the row a value is drawn on *)
RowOf(y, amp, rows) ==
    ClampRow(ToInt(RAdd(RMul(ClampFrac(FracOf(y, amp)), RInt(rows - 1)), Half)),
             rows)

(* MidRow truncating instead of rounding: the + 0.5f of line 361 dropped *)
MidRow_Truncated(amp, rows) ==
    ClampRow(ToInt(RMul(RDiv(RSub(amp, Zero),
                             RMul(Two, IF amp = Zero THEN One ELSE amp)),
                        RInt(rows - 1))),
             rows)

(* lines 361-363: the axis row *)
MidRow(amp, rows) ==
    ClampRow(ToInt(RAdd(RMul(RDiv(RSub(amp, Zero),
                                  RMul(Two, IF amp = Zero THEN One ELSE amp)),
                             RInt(rows - 1)),
                        Half)),
             rows)

(* lines 343-345 and 358: the canvas after the signal pass; a write to a  *)
(* row outside 0..rows-1 would be out of bounds and marks no cell here    *)
SignalCanvas(rowidx, cols, rows) ==
    [r \in 0 .. rows - 1 |->
        [c \in 1 .. cols |-> IF rowidx[c] = r THEN Star ELSE Blank]]

(* the axis pass without the test for a blank cell *)
AxisCanvas_Overwrite(canvas, mid_row, cols, rows) ==
    [r \in 0 .. rows - 1 |->
        [c \in 1 .. cols |-> IF r = mid_row THEN Dash ELSE canvas[r][c]]]

(* line 364: the axis pass *)
AxisCanvas(canvas, mid_row, cols, rows) ==
    [r \in 0 .. rows - 1 |->
        [c \in 1 .. cols |->
            IF r = mid_row /\ canvas[r][c] = Blank THEN Dash ELSE canvas[r][c]]]

(* How a call ends.  avail is the number of malloc calls the allocator    *)
(* serves: 0 fails the row-pointer array (line 334), k in 1..rows fails   *)
(* row k-1 (line 337), rows+1 serves them all.                            *)
RenderRet(yvals, cols, rows, avail) ==
    IF yvals.null \/ cols <= 0 \/ rows <= 0 THEN "rejected"
    ELSE IF avail <= rows THEN "nomem"
    ELSE "printed"

(* what perror writes to stderr, lines 334 and 338 *)
RenderPerror(yvals, cols, rows, avail) ==
    IF RenderRet(yvals, cols, rows, avail) # "nomem" THEN "none"
    ELSE IF avail = 0 THEN "malloc canvas"
    ELSE "malloc canvas[r]"

(* The blocks malloc returned, in the order of the calls: -1 is the       *)
(* row-pointer array (line 333), r >= 0 is canvas[r] (line 336).          *)
RenderAllocs(yvals, cols, rows, avail) ==
    CASE RenderRet(yvals, cols, rows, avail) = "rejected" -> <<>>
      [] RenderRet(yvals, cols, rows, avail) = "nomem" ->
           IF avail = 0 THEN <<>>
           ELSE <<-1>> \o [i \in 1 .. avail - 1 |-> i - 1]
      [] OTHER -> <<-1>> \o [i \in 1 .. rows |-> i - 1]

(* the clean-up of line 339 running to k <= r *)
RenderFrees_OneTooMany(yvals, cols, rows, avail) ==
    CASE RenderRet(yvals, cols, rows, avail) = "rejected" -> <<>>
      [] RenderRet(yvals, cols, rows, avail) = "nomem" ->
           IF avail = 0 THEN <<>>
           ELSE [i \in 1 .. avail |-> i - 1] \o <<-1>>
      [] OTHER -> [i \in 1 .. rows |-> i - 1] \o <<-1>>

(* The free calls in their order: lines 339-340 when row r = avail - 1    *)
(* cannot be allocated, lines 370-371 after printing; none after line 334 *)
RenderFrees(yvals, cols, rows, avail) ==
    CASE RenderRet(yvals, cols, rows, avail) = "rejected" -> <<>>
      [] RenderRet(yvals, cols, rows, avail) = "nomem" ->
           IF avail = 0 THEN <<>>
           ELSE [i \in 1 .. avail - 1 |-> i - 1] \o <<-1>>
      [] OTHER -> [i \in 1 .. rows |-> i - 1] \o <<-1>>

(* The outcome of one call: lines are the lines printed to stdout, rowidx *)
(* the row index written in each column; mid_row is -1 when the call      *)
(* returned before computing it; allocs and frees are the blocks          *)
(* allocated and the blocks passed to free.                               *)
print_ascii_from_yvals(yvals, cols, rows, amp, avail) ==
    IF RenderRet(yvals, cols, rows, avail) # "printed"
    THEN [ret |-> RenderRet(yvals, cols, rows, avail),
          perror |-> RenderPerror(yvals, cols, rows, avail),
          rowidx |-> <<>>, mid_row |-> -1, lines |-> <<>>,
          allocs |-> RenderAllocs(yvals, cols, rows, avail),
          frees |-> RenderFrees(yvals, cols, rows, avail)]
    ELSE LET rowidx  == [c \in 1 .. cols |-> RowOf(yvals.at[c], amp, rows)]
             mid_row == MidRow(amp, rows)
             canvas  == AxisCanvas(SignalCanvas(rowidx, cols, rows),
                                   mid_row, cols, rows)
         IN  [ret |-> "printed", perror |-> "none", rowidx |-> rowidx,
              mid_row |-> mid_row,
              lines |-> [i \in 1 .. rows |-> canvas[i - 1]],
              allocs |-> RenderAllocs(yvals, cols, rows, avail),
              frees |-> RenderFrees(yvals, cols, rows, avail)]

-----------------------------------------------------------------------------
(* sample_base_waveform *)

RFloor(a) == a[1] \div a[2]

(* the grid of sinf: arguments are multiples of PI/AngleDen, values are    *)
(* multiples of 1/SinDen                                                  *)
AngleDen == 6 * DEFAULT_SAMPLES

SinDen == 10 * DEFAULT_SAMPLES

(* the multiple of 1/den nearest to a >= 0 *)
Nearest(a, den) == R((a[1] * den + (a[2] \div 2)) \div a[2], den)

(* sinf of the angle x*PI.  The angle is reduced to [0, 2) half turns and  *)
(* the half wave is Bhaskara's rational approximation 16u(1-u)/(5-4u(1-u)) *)
(* which is exact at u = 0, 1/6, 1/2, 5/6, 1, odd, 2-periodic, in [-1, 1]. *)
HalfWave(u) ==
    LET n == u[1]
        d == u[2]
        p == n * (d - n)
    IN  Nearest(R(16 * p, 5 * d * d - 4 * p), SinDen)

sinf(x) ==
    LET w == Nearest(RSub(x, RMul(Two, RInt(RFloor(RDiv(x, Two))))), AngleDen)
    IN  IF RLe(w, One) THEN HalfWave(w) ELSE RNeg(HalfWave(RSub(w, One)))

(* the square branch with <= for <, line 384 *)
SquareValue_Inclusive(pos) == IF RLe(pos, duty_cycle) THEN amp_squ ELSE RNeg(amp_squ)

(* line 384 *)
SquareValue(pos) == IF RLt(pos, duty_cycle) THEN amp_squ ELSE RNeg(amp_squ)

(* line 390: the rising branch *)
TriangleRising(pos) == RAdd(RNeg(amp_tra), RMul(RMul(RInt(4), amp_tra), pos))

(* the falling branch starting from 4*amp instead of 3*amp *)
TriangleFalling_Offset(pos) ==
    RSub(RMul(RInt(4), amp_tra), RMul(RMul(RInt(4), amp_tra), pos))

(* line 391: the falling branch *)
TriangleFalling(pos) ==
    RSub(RMul(RInt(3), amp_tra), RMul(RMul(RInt(4), amp_tra), pos))

(* lines 390-391 *)
TriangleValue(pos) ==
    IF RLt(pos, Half) THEN TriangleRising(pos) ELSE TriangleFalling(pos)

(* the ramp multiplied by the stored slope *)
SawtoothValue_Sloped(frac) ==
    RAdd(RNeg(amp_saw), RMul(RMul(RMul(Two, amp_saw), slope), frac))

(* the ramp with slope amp instead of 2*amp *)
SawtoothValue_HalfSlope(frac) == RAdd(RNeg(amp_saw), RMul(amp_saw, frac))

(* line 397 *)
SawtoothValue(frac) == RAdd(RNeg(amp_saw), RMul(RMul(Two, amp_saw), frac))

(* lines 382-383, 388-389, 395-396: fmodf(t, T) / T with T = 1 / fre *)
PosOf(t, fre) ==
    LET T == RDiv(One, fre)
    IN  RDiv(fmodf(t, T), T)

(* lines 374-402 *)
sample_base_waveform(type, t) ==
    CASE type = 1 ->
           RMul(amp_sin, sinf(RAdd(RMul(RMul(Two, fre_sin), t), phase_sin)))
      [] type = 2 ->
           IF RLe(fre_squ, Zero) THEN Zero ELSE SquareValue(PosOf(t, fre_squ))
      [] type = 3 ->
           IF RLe(fre_tra, Zero) THEN Zero ELSE TriangleValue(PosOf(t, fre_tra))
      [] type = 4 ->
           IF RLe(fre_saw, Zero) THEN Zero ELSE SawtoothValue(PosOf(t, fre_saw))
      [] OTHER -> Zero

(* the divisors the call evaluates: fre in 1.0f / fre and T in fmodf / T *)
SampleDivisors(type) ==
    LET fre == CASE type = 2 -> fre_squ
                 [] type = 3 -> fre_tra
                 [] type = 4 -> fre_saw
                 [] OTHER -> Zero
    IN  IF type \in 2 .. 4 /\ ~RLe(fre, Zero)
        THEN <<fre, RDiv(One, fre)>>
        ELSE <<>>

(* lines 470 and 478-483: the 8 table samples of square_plot *)
SquareTable ==
    LET period     == RDiv(One, fre_squ)
        table_step == RDiv(period, RInt(TABLE_SAMPLES))
    IN  [i \in 0 .. TABLE_SAMPLES - 1 |->
            sample_base_waveform(2, RMul(RInt(i), table_step))]

(* the frequency a *_plot function tests and samples with *)
FreOf(type) ==
    CASE type = 1 -> fre_sin
      [] type = 2 -> fre_squ
      [] type = 3 -> fre_tra
      [] type = 4 -> fre_saw

(* the fractional part of t * fre: (t mod T) / T for t >= 0 and T = 1/fre *)
FracPart(t, fre) == RSub(RMul(t, fre), RInt(RFloor(RMul(t, fre))))

-----------------------------------------------------------------------------
(* The sample points of the displays: *_plot, run_AM, run_FM, run_PWM *)

(* line 27: 1/PI, to turn the radians of beta * xnorm into half turns *)
InvPi == R(7, 22)

(* lines 668-675, 692-699, 731-738, 754-761, 791-798, 815-822; it is also *)
(* the amplitude a *_plot function passes to the renderer                 *)
AmpBase(type) ==
    CASE type = 1 -> amp_sin
      [] type = 2 -> amp_squ
      [] type = 3 -> amp_tra
      [] type = 4 -> amp_saw
      [] OTHER -> One

(* the base sample used as it is, without the division *)
XNorm_Raw(type, t) == sample_base_waveform(type, t)

(* lines 667+676, 691+700, 730+739, 753+762, 790+799, 814+823 *)
XNorm(type, t) ==
    IF AmpBase(type) # Zero
    THEN RDiv(sample_base_waveform(type, t), AmpBase(type))
    ELSE Zero

(* the divisors the normalisation evaluates *)
XNormDivisors(type) == IF AmpBase(type) # Zero THEN <<AmpBase(type)>> ELSE <<>>

(* the reciprocal forgotten *)
ModPeriod_NoReciprocal(f) == IF RLt(Zero, f) THEN f ELSE One

(* lines 659, 721, 781 *)
ModPeriod(f) == IF RLt(Zero, f) THEN RDiv(One, f) ELSE One

(* the carrier as a cosine *)
AM_Sample_Cosine(xnorm, t, Ac, fc, m) ==
    LET env     == RAdd(One, RMul(m, xnorm))
        carrier == sinf(RAdd(RMul(RMul(Two, fc), t), Half))
    IN  RMul(RMul(Ac, env), carrier)

(* lines 677-679, 701-703 *)
AM_Sample(xnorm, t, Ac, fc, m) ==
    LET env     == RAdd(One, RMul(m, xnorm))
        carrier == sinf(RMul(RMul(Two, fc), t))
    IN  RMul(RMul(Ac, env), carrier)

(* lines 740-741, 763-764 *)
FM_Sample(xnorm, t, Ac, fc, beta) ==
    LET inst_phase == RAdd(RMul(RMul(Two, fc), t),
                           RMul(RMul(beta, xnorm), InvPi))
    IN  RMul(Ac, sinf(inst_phase))

(* lines 800-801, 824-825 *)
TriRef(t, period) ==
    LET carrier_frac == RDiv(fmodf(t, period), period)
    IN  RAdd(RInt(-1), RMul(Two, carrier_frac))

(* the comparison with >= for > *)
PWM_Sample_Inclusive(xnorm, t, Ac, period) ==
    IF RLe(TriRef(t, period), xnorm) THEN Ac ELSE RNeg(Ac)

(* lines 802, 827-828 *)
PWM_Sample(xnorm, t, Ac, period) ==
    IF RLt(TriRef(t, period), xnorm) THEN Ac ELSE RNeg(Ac)

(* no shift *)
TimeShift_None(type) == Zero

(* lines 447-449: sine_plot shifts the plot times by phase / (2 PI f); the *)
(* other displays do not shift                                            *)
TimeShift(type) ==
    IF type = 1 /\ fre_sin # Zero
    THEN RDiv(phase_sin, RMul(Two, fre_sin))
    ELSE Zero

(* lines 429-432, 476-479, 513-516, 550-553, 664-666, 726-729, 786-789 *)
TableTimes(period) ==
    LET table_step == RDiv(period, RInt(TABLE_SAMPLES))
    IN  [i \in 0 .. TABLE_SAMPLES - 1 |-> RMul(RInt(i), table_step)]

(* the last sample placed at the end of the period *)
PlotTimes_Closed(period, time_shift) ==
    LET plot_step == RDiv(period, RInt(DEFAULT_SAMPLES - 1))
    IN  [i \in 0 .. DEFAULT_SAMPLES - 1 |->
            RAdd(RMul(RInt(i), plot_step), time_shift)]

(* lines 440-441+452, 486+493, 523+530, 560+567, 687+690, 749+752, 810+813 *)
PlotTimes(period, time_shift) ==
    LET plot_step == RDiv(period, RInt(DEFAULT_SAMPLES))
    IN  [i \in 0 .. DEFAULT_SAMPLES - 1 |->
            RAdd(RMul(RInt(i), plot_step), time_shift)]

(* line 434 for the sine, lines 481, 518, 555 for the other kinds *)
PlotTableSample(type, t) ==
    IF type = 1
    THEN RMul(amp_sin, sinf(RAdd(RMul(RMul(Two, fre_sin), t), phase_sin)))
    ELSE sample_base_waveform(type, t)

(* line 454 for the sine, lines 495, 532, 569 for the other kinds *)
PlotPlotSample(type, t) ==
    IF type = 1
    THEN RMul(amp_sin, sinf(RMul(RMul(Two, fre_sin), t)))
    ELSE sample_base_waveform(type, t)

-----------------------------------------------------------------------------
(* Initial values of the stored parameters, lines 74-77 *)

InitParams ==
    /\ fre_sin = One /\ fre_squ = One /\ fre_saw = One /\ fre_tra = One
    /\ amp_sin = One /\ amp_squ = One /\ amp_saw = One /\ amp_tra = One
    /\ phase_sin = Zero
    /\ duty_cycle = Half
    /\ slope = One

InitSession ==
    /\ pc = "main_menu"
    /\ waveform_type = 0
    /\ depth = 1
    /\ out = <<>>
    /\ yval = FALSE
    /\ back = "none"

(* no call of the function is in progress or recorded *)
NoCall == [called |-> FALSE]

-----------------------------------------------------------------------------
(* SpecRender: the renderer applied to arbitrary arguments.  A state holds *)
(* the arguments of one call and, once the call has run, its outcome.      *)

Vals == {R(k, ValDen) : k \in -MaxVal .. MaxVal}

RowChoices == (-1 .. MaxRows) \cup {ASCII_ROWS}

YvalChoices(cols) ==
    {NULL} \cup {Buf(seq) : seq \in IF cols >= 1 THEN [1 .. cols -> Vals]
                                                ELSE {<<>>}}

AvailChoices(rows) == IF rows >= 1 THEN 0 .. rows + 1 ELSE {1}

Pending == [ret |-> "pending", perror |-> "none", rowidx |-> <<>>,
            mid_row |-> -1, lines |-> <<>>, allocs |-> <<>>, frees |-> <<>>]

InitRender ==
    /\ InitParams
    /\ InitSession
    /\ sampled = NoCall
    /\ display = NoCall
    /\ \E cols \in -1 .. MaxCols, rows \in RowChoices, amp \in Vals :
         \E yvals \in YvalChoices(cols), avail \in AvailChoices(rows) :
            render = [called |-> FALSE, yvals |-> yvals, cols |-> cols,
                      rows |-> rows, amp |-> amp, avail |-> avail,
                      res |-> Pending]

RenderCall ==
    /\ ~render.called
    /\ render' = [render EXCEPT
                    !.called = TRUE,
                    !.res = print_ascii_from_yvals(render.yvals, render.cols,
                                render.rows, render.amp, render.avail)]
    /\ UNCHANGED <<params, session, sampled, display>>

NextRender == RenderCall

SpecRender == InitRender /\ [][NextRender]_vars

-----------------------------------------------------------------------------
(* SpecSample: the sampler applied at arbitrary times to the parameters a  *)
(* configuration step can store for one kind, the other kinds at their     *)
(* initial values.  No step stores a sawtooth frequency: fre_saw keeps     *)
(* its initial value.                                                      *)

MaxFreq == 2

MaxAmp == 2

MaxTick == 24

FreqVals == {RInt(k) : k \in -1 .. MaxFreq}

AmpVals == {RInt(k) : k \in -MaxAmp .. MaxAmp}

PhaseVals == {Zero, R(1, 6), Half, One}

DutyVals == {Zero, R(1, 4), Half, R(3, 4), One}

Times == {R(i, 2 * TABLE_SAMPLES) : i \in 0 .. MaxTick}

InitSample ==
    /\ InitSession
    /\ render = NoCall
    /\ display = NoCall
    /\ \E type \in 0 .. 5, t \in Times :
         sampled = [called |-> FALSE, type |-> type, t |-> t,
                    ret |-> Zero, divisors |-> <<>>]
    /\ slope = One
    /\ fre_saw = One
    /\ \E kind \in 1 .. 4, fre \in FreqVals, amp \in AmpVals :
         /\ kind = 4 => fre = One
         /\ fre_sin = (IF kind = 1 THEN fre ELSE One)
         /\ fre_squ = (IF kind = 2 THEN fre ELSE One)
         /\ fre_tra = (IF kind = 3 THEN fre ELSE One)
         /\ amp_sin = (IF kind = 1 THEN amp ELSE One)
         /\ amp_squ = (IF kind = 2 THEN amp ELSE One)
         /\ amp_tra = (IF kind = 3 THEN amp ELSE One)
         /\ amp_saw = (IF kind = 4 THEN amp ELSE One)
         /\ \E ph \in PhaseVals : phase_sin = (IF kind = 1 THEN ph ELSE Zero)
         /\ \E du \in DutyVals : duty_cycle = (IF kind = 2 THEN du ELSE Half)

SampleCall ==
    /\ ~sampled.called
    /\ sampled' = [sampled EXCEPT
                     !.called = TRUE,
                     !.ret = sample_base_waveform(sampled.type, sampled.t),
                     !.divisors = SampleDivisors(sampled.type)]
    /\ UNCHANGED <<params, session, render, display>>

NextSample == SampleCall

SpecSample == InitSample /\ [][NextSample]_vars

-----------------------------------------------------------------------------
(* Spec: the interactive session.  pc is the place where the program waits *)
(* for input or the function it is about to enter, waveform_type the menu  *)
(* item being handled, depth the number of active main_menu activations,   *)
(* out the blocks printed since the main menu was last shown, yval whether *)
(* the sample buffer of a *_plot function is allocated.                    *)

MaxDepth == 2

MaxSessFreq == 1

MaxSessAmp == 1

(* what scanf("%f") or the phase parser finds: a number or no number *)
Num(x) == [ok |-> TRUE, val |-> x]

NoNum == [ok |-> FALSE, val |-> Zero]

FreqToks == {Num(RInt(k)) : k \in -1 .. MaxSessFreq} \cup {NoNum}

AmpToks == {Num(RInt(k)) : k \in 0 .. MaxSessAmp} \cup {NoNum}

PhaseToks == {Num(Zero), Num(Half), NoNum}

DutyToks == {Num(R(-1, 2)), Num(Half), Num(R(3, 2)), NoNum}

SlopeToks == {Num(One), Num(Two), NoNum}

(* scanf("%f", &x) != 1 sets the fallback; a token that is no number      *)
(* stays in the input and fails the scanf calls that follow it            *)
Scanned(ok, tok, fallback) == IF ok /\ tok.ok THEN tok.val ELSE fallback

(* the token typed at the main menu: an integer or something else *)
MenuToks == {[isint |-> TRUE, val |-> n] : n \in 0 .. 5}
                \cup {[isint |-> FALSE, val |-> 0]}

FreqError == "Frequency must be > 0!"

(* lines 88-92, 94-123, 125-136: get_user_input repeats the question      *)
(* until the token is an integer in 1..4, select_menu_item enters the     *)
(* item                                                                   *)
main_menu ==
    /\ pc = "main_menu"
    /\ back # "EOF"
    /\ \E tok \in MenuToks :
         /\ tok.isint /\ tok.val >= 1 /\ tok.val <= 4
         /\ waveform_type' = tok.val
    /\ pc' = "configure"
    /\ back' = "none"
    /\ UNCHANGED <<params, depth, out, yval, render, sampled, display>>

(* lines 265-286 *)
sine ==
    /\ pc = "configure" /\ waveform_type = 1
    /\ \E f \in FreqToks, a \in AmpToks, ph \in PhaseToks :
         /\ fre_sin' = Scanned(TRUE, f, One)
         /\ amp_sin' = Scanned(f.ok, a, One)
         /\ phase_sin' = Scanned(TRUE, ph, Zero)
    /\ pc' = "plot"
    /\ UNCHANGED <<fre_squ, fre_saw, fre_tra, amp_squ, amp_saw, amp_tra,
                   duty_cycle, slope>>
    /\ UNCHANGED <<waveform_type, depth, out, yval, back, render, sampled,
                   display>>

(* the upper limit left out *)
ClampDuty_NoUpper(d) == IF RLt(d, Zero) THEN Zero ELSE d

(* lines 300-301 *)
ClampDuty(d) ==
    IF RLt(d, Zero) THEN Zero ELSE IF RLt(One, d) THEN One ELSE d

(* lines 288-303 *)
square ==
    /\ pc = "configure" /\ waveform_type = 2
    /\ \E f \in FreqToks, a \in AmpToks, d \in DutyToks :
         /\ fre_squ' = Scanned(TRUE, f, One)
         /\ amp_squ' = Scanned(f.ok, a, One)
         /\ duty_cycle' = ClampDuty(Scanned(f.ok /\ a.ok, d, Half))
    /\ pc' = "plot"
    /\ UNCHANGED <<fre_sin, fre_saw, fre_tra, amp_sin, amp_saw, amp_tra,
                   phase_sin, slope>>
    /\ UNCHANGED <<waveform_type, depth, out, yval, back, render, sampled,
                   display>>

(* triangle storing its frequency in the sawtooth's variable *)
triangle_WritesSaw ==
    /\ pc = "configure" /\ waveform_type = 3
    /\ \E f \in FreqToks, a \in AmpToks :
         /\ fre_saw' = Scanned(TRUE, f, One)
         /\ amp_tra' = Scanned(f.ok, a, One)
    /\ pc' = "plot"
    /\ UNCHANGED <<fre_sin, fre_squ, fre_tra, amp_sin, amp_squ, amp_saw,
                   phase_sin, duty_cycle, slope>>
    /\ UNCHANGED <<waveform_type, depth, out, yval, back, render, sampled,
                   display>>

(* lines 305-314 *)
triangle ==
    /\ pc = "configure" /\ waveform_type = 3
    /\ \E f \in FreqToks, a \in AmpToks :
         /\ fre_tra' = Scanned(TRUE, f, One)
         /\ amp_tra' = Scanned(f.ok, a, One)
    /\ pc' = "plot"
    /\ UNCHANGED <<fre_sin, fre_squ, fre_saw, amp_sin, amp_squ, amp_saw,
                   phase_sin, duty_cycle, slope>>
    /\ UNCHANGED <<waveform_type, depth, out, yval, back, render, sampled,
                   display>>

(* sawtooth asking for a frequency like the other kinds *)
sawtooth_WithFrequency ==
    /\ pc = "configure" /\ waveform_type = 4
    /\ \E f \in FreqToks, a \in AmpToks, sl \in SlopeToks :
         /\ fre_saw' = Scanned(TRUE, f, One)
         /\ amp_saw' = Scanned(f.ok, a, One)
         /\ slope' = Scanned(f.ok /\ a.ok, sl, One)
    /\ pc' = "plot"
    /\ UNCHANGED <<fre_sin, fre_squ, fre_tra, amp_sin, amp_squ,
                   amp_tra, phase_sin, duty_cycle>>
    /\ UNCHANGED <<waveform_type, depth, out, yval, back, render, sampled,
                   display>>

(* lines 316-325 *)
sawtooth ==
    /\ pc = "configure" /\ waveform_type = 4
    /\ \E a \in AmpToks, sl \in SlopeToks :
         /\ amp_saw' = Scanned(TRUE, a, One)
         /\ slope' = Scanned(a.ok, sl, One)
    /\ pc' = "plot"
    /\ UNCHANGED <<fre_sin, fre_squ, fre_saw, fre_tra, amp_sin, amp_squ,
                   amp_tra, phase_sin, duty_cycle>>
    /\ UNCHANGED <<waveform_type, depth, out, yval, back, render, sampled,
                   display>>

(* the frequency test left out *)
FrequencyRejected_Never(fre) == FALSE

(* the frequency test with < for <= *)
FrequencyRejected_Strict(fre) == RLt(fre, Zero)

(* lines 417, 468, 506, 543: fre <= 0.0f *)
FrequencyRejected(fre) == RLe(fre, Zero)

(* What a *_plot function prints up to its modulation prompt.  heap is    *)
(* the number of malloc calls served: 0 fails yval (lines 445, 489, 526,  *)
(* 563), 1..ASCII_ROWS+1 fails the canvas inside print_ascii_from_yvals   *)
(* (the header and footer of the plot are printed without a grid),        *)
(* ASCII_ROWS+2 serves them all.                                          *)
PlotOut(fre, heap) ==
    IF FrequencyRejected(fre) THEN <<FreqError>>
    ELSE IF heap = 0 THEN <<"table", "perror malloc yval">>
    ELSE IF RenderRet(Buf(<<>>), DEFAULT_SAMPLES, ASCII_ROWS, heap - 1)
                = "printed"
         THEN <<"table", "plot", "prompt">>
         ELSE <<"table", "perror malloc canvas", "prompt">>

HeapChoices == {0, 1, ASCII_ROWS + 1, ASCII_ROWS + 2}

(* lines 416-464, 466-502, 504-539, 541-576 up to the scanf of            *)
(* modulation_prompt (line 623); on an early return the caller menu_item_k *)
(* goes on to go_back_to_main                                             *)
PlotStep(type, fre) ==
    /\ pc = "plot" /\ waveform_type = type
    /\ \E heap \in HeapChoices :
         /\ out' = out \o PlotOut(fre, heap)
         /\ yval' = (Len(PlotOut(fre, heap)) = 3)
         /\ pc' = IF Len(PlotOut(fre, heap)) = 3 THEN "modulation_prompt"
                                                 ELSE "go_back"
    /\ UNCHANGED <<params, waveform_type, depth, back, render, sampled,
                   display>>

sine_plot == PlotStep(1, fre_sin)

square_plot == PlotStep(2, fre_squ)

triangle_plot == PlotStep(3, fre_tra)

sawtooth_plot == PlotStep(4, fre_saw)

(* lines 619-627 from the scanf on; without 'y' the prompt returns and    *)
(* the *_plot function frees yval and returns to menu_item_k              *)
modulation_prompt ==
    /\ pc = "modulation_prompt"
    /\ \E yn \in {"y", "Y", "n", "x"} :
         IF yn = "y" \/ yn = "Y"
         THEN /\ out' = Append(out, "modulation menu")
              /\ pc' = "modulation_menu"
              /\ yval' = yval
         ELSE /\ out' = out
              /\ pc' = "go_back"
              /\ yval' = FALSE
    /\ UNCHANGED <<params, waveform_type, depth, back, render, sampled,
                   display>>

(* what run_AM, run_FM and run_PWM print: the table, then the plot unless *)
(* malloc of y fails (lines 686, 748, 809) or the canvas cannot be        *)
(* allocated                                                              *)
RunOut(name, heap) ==
    IF heap = 0 THEN <<name \o " table", "perror malloc y">>
    ELSE IF RenderRet(Buf(<<>>), DEFAULT_SAMPLES, ASCII_ROWS, heap - 1)
                = "printed"
         THEN <<name \o " table", name \o " plot">>
         ELSE <<name \o " table", "perror malloc canvas">>

(* the token typed at "Select modulation type": scanf("%d") *)
ChoiceToks == {[isint |-> TRUE, val |-> n] : n \in 0 .. 4}
                  \cup {[isint |-> FALSE, val |-> 0]}

MaxAc == 0

MaxCarrier == 0

MaxIndex == 0

(* what the scanf("%f") calls of run_AM, run_FM and run_PWM find; each    *)
(* failed scanf discards the rest of its line, so the tokens are          *)
(* independent                                                            *)
AcToks == {Num(RInt(k)) : k \in -1 .. MaxAc} \cup {NoNum}

FcToks == {Num(RInt(2 * k)) : k \in -1 .. MaxCarrier} \cup {NoNum}

IdxToks == {Num(R(k, 2)) : k \in -1 .. MaxIndex} \cup {NoNum}

ModToks == [Ac : AcToks, fc : FcToks, idx : IdxToks]

NoToks == [Ac |-> NoNum, fc |-> NoNum, idx |-> NoNum]

(* the tokens typed in a session *)
SessModToks == [Ac : {Num(Two), NoNum}, fc : {Num(Zero), NoNum},
                idx : {Num(Zero), NoNum}]

(* lines 654, 716: fc = 1.0f; line 777: fpwm = 50.0f *)
FcDefault(kind) == IF kind = "PWM" THEN RInt(50) ELSE One

(* line 654: m = 0.5f; line 716: beta = 1.0f; run_PWM has no index *)
IdxDefault(kind) ==
    CASE kind = "AM" -> Half
      [] kind = "FM" -> One
      [] OTHER -> Zero

(* lines 654-657, 716-719, 777-779: the locals after the scanf calls; Ac  *)
(* starts at 1.0f in all three                                            *)
ModLocals(kind, toks) ==
    [Ac  |-> Scanned(TRUE, toks.Ac, One),
     fc  |-> Scanned(TRUE, toks.fc, FcDefault(kind)),
     idx |-> Scanned(TRUE, toks.idx, IdxDefault(kind))]

(* lines 640-642 *)
KindOf(choice) ==
    CASE choice = 1 -> "AM"
      [] choice = 2 -> "FM"
      [] choice = 3 -> "PWM"
      [] OTHER -> "none"

(* lines 629-647 from the scanf on.  A token that is no integer returns   *)
(* to the *_plot function, which frees yval; any integer ends in          *)
(* go_back_to_main, called from here with yval still allocated.  display  *)
(* keeps the locals of the run until the main menu is shown again.        *)
modulation_menu_and_run ==
    /\ pc = "modulation_menu"
    /\ \E tok \in ChoiceToks, heap \in HeapChoices, toks \in SessModToks :
         LET kind == IF tok.isint THEN KindOf(tok.val) ELSE "none"
         IN  /\ (kind = "none" \/ heap = 0) => toks = NoToks
             /\ kind = "PWM" => toks.idx = NoNum
             /\ IF ~tok.isint
                THEN /\ out' = Append(out, "Invalid input")
                     /\ yval' = FALSE
                ELSE /\ out' = out \o
                                  (IF kind = "none"
                                   THEN <<"Invalid modulation choice">>
                                   ELSE RunOut(kind, heap))
                     /\ yval' = yval
             /\ display' = IF kind = "none"
                           THEN display
                           ELSE [called |-> TRUE, kind |-> kind,
                                 type |-> waveform_type, toks |-> toks,
                                 locals |-> ModLocals(kind, toks)]
    /\ pc' = "go_back"
    /\ UNCHANGED <<params, waveform_type, depth, back, render, sampled>>

(* what scanf("%99s") of go_back_to_main finds: a token by its first      *)
(* character, or the end of the input                                     *)
BackToks == {"b", "B", "q", "EOF"}

(* line 186 reads input[0].  After a token it is the token's first        *)
(* character.  When scanf fails the array keeps what it held: the first   *)
(* character of the token read before in this activation, or, when        *)
(* nothing was read yet, the indeterminate content of the local array,    *)
(* which may or may not be a b.                                           *)
FirstChars(tok) ==
    IF tok # "EOF" THEN {tok}
    ELSE IF back = "none" THEN {"b", "q"} ELSE {back}

(* the function returning to its caller in place of calling main_menu *)
go_back_to_main_Returns ==
    /\ pc = "go_back"
    /\ back # "EOF"
    /\ \E tok \in BackToks : \E first \in FirstChars(tok) :
         /\ back' = tok
         /\ IF first \in {"b", "B"}
            THEN /\ pc' = "returned"
                 /\ depth' = depth - 1
                 /\ out' = <<>>
                 /\ display' = NoCall
            ELSE UNCHANGED <<pc, depth, out, display>>
    /\ UNCHANGED <<params, waveform_type, yval, render, sampled>>

(* lines 178-188, one pass of the loop for each token.  A token that      *)
(* starts with b or B ends the loop and main_menu is entered again, one   *)
(* activation deeper (line 187); after any other token the question is    *)
(* repeated.  At the end of the input scanf fails, the flush ends at once *)
(* and continue jumps to the test of input[0]; the input stays at its end *)
(* from then on, so every later pass repeats this one and neither this    *)
(* loop nor the loop of get_user_input (lines 100-121) reads a token.     *)
go_back_to_main ==
    /\ pc = "go_back"
    /\ back # "EOF"
    /\ \E tok \in BackToks : \E first \in FirstChars(tok) :
         /\ back' = tok
         /\ IF first \in {"b", "B"}
            THEN /\ depth < MaxDepth
                 /\ pc' = "main_menu"
                 /\ depth' = depth + 1
                 /\ out' = <<>>
                 /\ display' = NoCall
            ELSE UNCHANGED <<pc, depth, out, display>>
    /\ UNCHANGED <<params, waveform_type, yval, render, sampled>>

Init ==
    /\ InitParams
    /\ InitSession
    /\ render = NoCall
    /\ sampled = NoCall
    /\ display = NoCall

Next ==
    \/ main_menu
    \/ sine \/ square \/ triangle \/ sawtooth
    \/ sine_plot \/ square_plot \/ triangle_plot \/ sawtooth_plot
    \/ modulation_prompt
    \/ modulation_menu_and_run
    \/ go_back_to_main

Spec == Init /\ [][Next]_vars

-----------------------------------------------------------------------------
(* SpecDisplay: one display, a *_plot function ("plot") or a modulation   *)
(* run, on the parameters a configuration step can store for its kind,    *)
(* the other kinds at their initial values.  A modulation is only offered *)
(* by a *_plot function that passed its frequency test.                   *)

DisplayKinds == {"plot", "AM", "FM", "PWM"}

DisplayAmps == {RInt(-2), Zero, One}

DisplayPhases == {Zero, R(1, 6), Half}

DisplayDuties == {Zero, R(1, 4), One}

DisplayHeaps == {0, 1, ASCII_ROWS + 2}

(* the AM scale without the factor 1 + |m| *)
ScaleAmp_NoIndex(kind, type, locals) ==
    CASE kind \in {"AM", "FM", "PWM"} -> locals.Ac
      [] OTHER -> AmpBase(type)

(* lines 459, 497, 534, 571, 707, 768, 832: the amplitude of the plot *)
ScaleAmp(kind, type, locals) ==
    CASE kind = "AM" -> RMul(locals.Ac, RAdd(One, RAbs(locals.idx)))
      [] kind \in {"FM", "PWM"} -> locals.Ac
      [] OTHER -> AmpBase(type)

(* lines 659, 721, 781 for a modulation, 422, 470, 508, 545 for a *_plot *)
PeriodOf(kind, type, locals) ==
    IF kind = "plot" THEN RDiv(One, FreOf(type)) ELSE ModPeriod(locals.fc)

(* one sample of the table (stage "table") or of the plot: its time, the *)
(* normalised base value a modulation computes (none in a *_plot          *)
(* function) and the value printed or stored                              *)
DisplaySample(kind, type, stage, t, locals, period) ==
    IF kind = "plot"
    THEN [t |-> t, x |-> Zero,
          y |-> IF stage = "table" THEN PlotTableSample(type, t)
                                   ELSE PlotPlotSample(type, t)]
    ELSE LET xnorm == XNorm(type, t)
         IN  [t |-> t, x |-> xnorm,
              y |-> CASE kind = "AM" ->
                           AM_Sample(xnorm, t, locals.Ac, locals.fc, locals.idx)
                      [] kind = "FM" ->
                           FM_Sample(xnorm, t, locals.Ac, locals.fc, locals.idx)
                      [] kind = "PWM" ->
                           PWM_Sample(xnorm, t, locals.Ac, period)]

NoDisplay == [out |-> <<>>, period |-> Zero, table |-> <<>>, plot |-> <<>>,
              amp |-> Zero, grid |-> Pending]

(* lines 416-461, 466-499, 504-536, 541-573 up to the modulation prompt,  *)
(* lines 651-711, 713-772, 774-836 after the scanf calls                  *)
DisplayRun(kind, type, locals, heap) ==
    IF kind = "plot" /\ FrequencyRejected(FreOf(type))
    THEN [NoDisplay EXCEPT !.out = PlotOut(FreOf(type), heap)]
    ELSE
      LET period == PeriodOf(kind, type, locals)
          ttimes == TableTimes(period)
          ptimes == PlotTimes(period,
                              IF kind = "plot" THEN TimeShift(type) ELSE Zero)
          table  == [i \in 0 .. TABLE_SAMPLES - 1 |->
                       DisplaySample(kind, type, "table", ttimes[i],
                                     locals, period)]
          plot   == [i \in 0 .. DEFAULT_SAMPLES - 1 |->
                       DisplaySample(kind, type, "plot", ptimes[i],
                                     locals, period)]
          amp    == ScaleAmp(kind, type, locals)
          blocks == IF kind = "plot" THEN PlotOut(FreOf(type), heap)
                                     ELSE RunOut(kind, heap)
      IN  IF heap = 0
          THEN [NoDisplay EXCEPT !.out = blocks, !.period = period,
                                 !.table = table]
          ELSE [out |-> blocks, period |-> period, table |-> table,
                plot |-> plot, amp |-> amp,
                grid |-> print_ascii_from_yvals(
                            Buf([c \in 1 .. DEFAULT_SAMPLES |-> plot[c - 1].y]),
                            DEFAULT_SAMPLES, ASCII_ROWS, amp, heap - 1)]

InitDisplay ==
    /\ InitSession
    /\ render = NoCall
    /\ sampled = NoCall
    /\ slope = One
    /\ fre_saw = One
    /\ \E type \in 1 .. 4, fre \in FreqVals, amp \in DisplayAmps :
         /\ type = 4 => fre = One
         /\ fre_sin = (IF type = 1 THEN fre ELSE One)
         /\ fre_squ = (IF type = 2 THEN fre ELSE One)
         /\ fre_tra = (IF type = 3 THEN fre ELSE One)
         /\ amp_sin = (IF type = 1 THEN amp ELSE One)
         /\ amp_squ = (IF type = 2 THEN amp ELSE One)
         /\ amp_tra = (IF type = 3 THEN amp ELSE One)
         /\ amp_saw = (IF type = 4 THEN amp ELSE One)
         /\ \E ph \in DisplayPhases : phase_sin = (IF type = 1 THEN ph ELSE Zero)
         /\ \E du \in DisplayDuties : duty_cycle = (IF type = 2 THEN du ELSE Half)
         /\ \E kind \in DisplayKinds, toks \in ModToks, heap \in DisplayHeaps :
              /\ kind = "plot" => toks = NoToks
              /\ kind = "PWM" => toks.idx = NoNum
              /\ kind # "plot" => RLt(Zero, fre)
              /\ display = [called |-> FALSE, kind |-> kind, type |-> type,
                            toks |-> toks, heap |-> heap,
                            locals |-> ModLocals(kind, NoToks),
                            res |-> NoDisplay, again |-> FALSE,
                            prev |-> NoDisplay]

DisplayCall ==
    /\ ~display.called
    /\ display' = [display EXCEPT
                     !.called = TRUE,
                     !.locals = ModLocals(display.kind, display.toks),
                     !.res = DisplayRun(display.kind, display.type,
                                ModLocals(display.kind, display.toks),
                                display.heap)]
    /\ UNCHANGED <<params, session, render, sampled>>

DisplaySlopes == {Half, Two}

(* sawtooth() storing another slope and the amplitude typed before (lines *)
(* 316-325), so that the same display is made once more: the second of    *)
(* two runs that differ in the slope alone.  prev keeps the first outcome. *)
Reslope ==
    /\ display.called
    /\ display.type = 4
    /\ ~display.again
    /\ \E sl \in DisplaySlopes : slope' = sl
    /\ UNCHANGED <<fre_sin, fre_squ, fre_saw, fre_tra, amp_sin, amp_squ,
                   amp_saw, amp_tra, phase_sin, duty_cycle>>
    /\ display' = [display EXCEPT !.called = FALSE, !.again = TRUE,
                                  !.prev = display.res, !.res = NoDisplay]
    /\ UNCHANGED <<session, render, sampled>>

NextDisplay == DisplayCall \/ Reslope

SpecDisplay == InitDisplay /\ [][NextDisplay]_vars

-----------------------------------------------------------------------------
(* Properties of print_ascii_from_yvals, checked under SpecRender *)

Printed == render.called /\ render.res.ret = "printed"

WellFormed == ~render.yvals.null /\ render.cols >= 1 /\ render.rows >= 1

Cell(r, c) == render.res.lines[r + 1][c]

Cols == 1 .. render.cols

Rows == 0 .. render.rows - 1

(* C1: with rows = 21 and amp = 0 the axis row is row 10 and every          *)
(* column's signal marker is on row 10, whatever the values.               *)
C1_FlatFallback ==
    (Printed /\ render.rows = ASCII_ROWS /\ render.amp = Zero)
        => /\ render.res.mid_row = 10
           /\ \A c \in Cols : render.res.rowidx[c] = 10

(* C2: for cols >= 1, rows >= 1, any amp and any values, every computed row *)
(* index lies in 0..rows-1, and the grid that is printed has rows lines of  *)
(* cols characters, every cell blank, '*' or '-', one '*' in each column.   *)
C2_GridShape ==
    (render.called /\ WellFormed)
        => /\ render.avail > render.rows => Printed
           /\ Printed =>
                /\ \A c \in Cols : render.res.rowidx[c] \in Rows
                /\ Len(render.res.lines) = render.rows
                /\ \A r \in Rows :
                      /\ Len(render.res.lines[r + 1]) = render.cols
                      /\ \A c \in Cols : Cell(r, c) \in {Blank, Star, Dash}
                /\ \A c \in Cols :
                      Cardinality({r \in Rows : Cell(r, c) = Star}) = 1

C2_Witness ==
    /\ Printed
    /\ render.rows = ASCII_ROWS
    /\ RLt(render.amp, Zero)
    /\ \E c \in Cols : RLt(RMul(Two, RAbs(render.amp)), render.yvals.at[c])
    /\ \E c \in Cols : RLt(render.yvals.at[c], RNeg(RMul(Two, RAbs(render.amp))))

(* C3: the axis marker never replaces a signal marker: every cell of the   *)
(* axis row is '*' where the column's value mapped to that row and '-'     *)
(* elsewhere, none is blank, and no other row holds a '-'.                 *)
C3_AxisKeepsSignal ==
    Printed =>
        \A c \in Cols :
            /\ Cell(render.res.mid_row, c) =
                  IF render.res.rowidx[c] = render.res.mid_row THEN Star ELSE Dash
            /\ \A r \in Rows \ {render.res.mid_row} : Cell(r, c) # Dash

C3_Witness ==
    /\ Printed
    /\ \E c1, c2 \in Cols :
          /\ render.res.rowidx[c1] = render.res.mid_row
          /\ render.res.rowidx[c2] # render.res.mid_row

(* C4: with amp # 0, of two column values v1 >= v2 the larger is drawn on  *)
(* a row index that is not greater, a value +amp is drawn on row 0 and a   *)
(* value -amp on row rows-1.                                               *)
C4_LargerIsHigher ==
    (Printed /\ render.amp # Zero)
        => /\ \A c1, c2 \in Cols :
                RLe(render.yvals.at[c2], render.yvals.at[c1])
                    => render.res.rowidx[c1] <= render.res.rowidx[c2]
           /\ \A c \in Cols :
                /\ render.yvals.at[c] = render.amp => render.res.rowidx[c] = 0
                /\ render.yvals.at[c] = RNeg(render.amp)
                      => render.res.rowidx[c] = render.rows - 1

(* C5: with amp # 0 and rows >= 1 the axis row is round-half-up of          *)
(* 0.5*(rows-1), whatever amp and the values are; it is the row a value of *)
(* 0 is drawn on; for rows = 21 it is row 10.                              *)
C5_AxisIsMidpoint ==
    (Printed /\ render.amp # Zero)
        => /\ render.res.mid_row = render.rows \div 2
           /\ \A c \in Cols :
                render.yvals.at[c] = Zero
                    => render.res.rowidx[c] = render.res.mid_row
           /\ render.rows = ASCII_ROWS => render.res.mid_row = 10

C5_Witness ==
    /\ Printed
    /\ RLt(render.amp, Zero)
    /\ render.rows = 4
    /\ \E c \in Cols : render.yvals.at[c] = Zero
    /\ \E c \in Cols : render.yvals.at[c] # Zero

(* C6: an all-zero sequence rendered with amp = 1 has the signal marker of *)
(* every column on row round(0.5*(rows-1)); every other row is blank and   *)
(* the axis row holds no axis marker.                                      *)
C6_AllZero ==
    (Printed /\ render.amp = One /\ \A c \in Cols : render.yvals.at[c] = Zero)
        => \A c \in Cols :
             /\ render.res.rowidx[c] = render.rows \div 2
             /\ \A r \in Rows :
                   Cell(r, c) = IF r = render.rows \div 2 THEN Star ELSE Blank

C6_Witness ==
    /\ Printed
    /\ render.amp = One
    /\ render.cols >= 2
    /\ render.rows = 2
    /\ \A c \in Cols : render.yvals.at[c] = Zero

(* C7: malformed input (null or empty sequence, cols <= 0 or rows <= 0) is *)
(* rejected with an error reported to the caller and no grid line; for     *)
(* well-formed input the rendering never fails.                            *)
C7_RejectsWithError ==
    render.called
        => /\ ~WellFormed => /\ render.res.perror # "none"
                             /\ render.res.lines = <<>>
           /\ WellFormed => render.res.ret = "printed"

(* how often block b is passed to free in the call *)
TimesFreed(b) ==
    Cardinality({i \in DOMAIN render.res.frees : render.res.frees[i] = b})

Allocated == {render.res.allocs[i] : i \in DOMAIN render.res.allocs}

(* C21: the canvas does not outlive the call: on every path through        *)
(* print_ascii_from_yvals, also when the row-pointer array or any single   *)
(* row cannot be allocated, every row that was allocated and the           *)
(* row-pointer array are freed exactly once before the return, no row      *)
(* that was not allocated is freed, and no grid line is printed when an    *)
(* allocation failed.                                                      *)
C21_CanvasFreed ==
    render.called
        => /\ \A b \in Allocated : TimesFreed(b) = 1
           /\ \A i \in DOMAIN render.res.frees : render.res.frees[i] \in Allocated
           /\ render.res.ret = "nomem"
                 => /\ render.res.lines = <<>>
                    /\ Allocated = IF render.avail = 0 THEN {}
                                   ELSE -1 .. render.avail - 2
           /\ render.res.ret = "printed" => Allocated = -1 .. render.rows - 1

(* row 2 of 4 cannot be allocated: rows 0 and 1 and the array are freed *)
C21_Witness ==
    /\ render.called
    /\ render.rows = 4
    /\ render.avail = 3
    /\ render.res.ret = "nomem"
    /\ render.res.allocs = <<-1, 0, 1>>
    /\ render.res.frees = <<0, 1, -1>>

-----------------------------------------------------------------------------
(* Properties of sample_base_waveform, checked under SpecSample *)

(* C9: the sampler returns exactly 0 whenever the frequency of the         *)
(* requested kind (sine, square, triangle, sawtooth) is <= 0, returns 0    *)
(* for a kind code outside 1..4, and never divides by zero.                *)
C9_ZeroWhenNoFrequency ==
    sampled.called
        => /\ (sampled.type \in 1 .. 4 /\ RLe(FreOf(sampled.type), Zero))
                 => sampled.ret = Zero
           /\ sampled.type \notin 1 .. 4 => sampled.ret = Zero
           /\ \A i \in DOMAIN sampled.divisors : sampled.divisors[i] # Zero

TableCount(value) ==
    Cardinality({i \in 0 .. TABLE_SAMPLES - 1 : SquareTable[i] = value})

(* C10 as claimed: for the square kind with frequency > 0 and t >= 0 the   *)
(* sample is +amplitude exactly when pos < duty_cycle and -amplitude       *)
(* otherwise; of the 8 table samples of one period exactly 4 equal         *)
(* +amplitude for duty_cycle 0.5, none for 0, all 8 for 1.                 *)
C10_Claimed ==
    (sampled.called /\ sampled.type = 2 /\ RLt(Zero, fre_squ))
        => /\ (sampled.ret = amp_squ)
                 <=> RLt(FracPart(sampled.t, fre_squ), duty_cycle)
           /\ sampled.ret \in {amp_squ, RNeg(amp_squ)}
           /\ duty_cycle = Half => TableCount(amp_squ) = 4
           /\ duty_cycle = Zero => TableCount(amp_squ) = 0
           /\ duty_cycle = One  => TableCount(amp_squ) = TABLE_SAMPLES

(* C10 amended: the sample is +amplitude when pos < duty_cycle and         *)
(* -amplitude otherwise; for an amplitude other than 0 the two differ and  *)
(* of the 8 table samples exactly 4 equal +amplitude for duty_cycle 0.5,   *)
(* none for 0, all 8 for 1 (for amplitude 0 every sample is 0).            *)
C10_SquareDuty ==
    (sampled.called /\ sampled.type = 2 /\ RLt(Zero, fre_squ))
        => /\ sampled.ret =
                 IF RLt(FracPart(sampled.t, fre_squ), duty_cycle)
                 THEN amp_squ ELSE RNeg(amp_squ)
           /\ amp_squ # Zero
                 => /\ duty_cycle = Half => TableCount(amp_squ) = 4
                    /\ duty_cycle = Zero => TableCount(amp_squ) = 0
                    /\ duty_cycle = One  => TableCount(amp_squ) = TABLE_SAMPLES
           /\ amp_squ = Zero => TableCount(Zero) = TABLE_SAMPLES

C10_Witness ==
    /\ sampled.called
    /\ sampled.type = 2
    /\ fre_squ = Two
    /\ amp_squ = RInt(-1)
    /\ duty_cycle = Half
    /\ sampled.t = One
    /\ sampled.ret = amp_squ

(* C11: for the triangle kind with frequency > 0 the sample at pos = 0 is *)
(* -amplitude, at pos = 0.5 it is +amplitude, the rising and the falling   *)
(* branch give the same value at pos = 0.5, and for every pos in [0, 1)    *)
(* the sample lies in [-|amplitude|, |amplitude|].                         *)
C11_Triangle ==
    (sampled.called /\ sampled.type = 3 /\ RLt(Zero, fre_tra))
        => LET pos == FracPart(sampled.t, fre_tra)
           IN  /\ pos = Zero => sampled.ret = RNeg(amp_tra)
               /\ pos = Half => sampled.ret = amp_tra
               /\ TriangleRising(Half) = TriangleFalling(Half)
               /\ RLe(RNeg(RAbs(amp_tra)), sampled.ret)
               /\ RLe(sampled.ret, RAbs(amp_tra))

C11_Witness ==
    /\ sampled.called
    /\ sampled.type = 3
    /\ fre_tra = Two
    /\ amp_tra = RInt(-2)
    /\ sampled.t = R(3, 4)
    /\ sampled.ret = amp_tra

(* the sawtooth sample at another time, lines 393-398 *)
SawAt(t) == sample_base_waveform(4, t)

(* C12 as claimed: for the sawtooth kind with frequency > 0 the sample is  *)
(* -amplitude + 2*amplitude*frac with frac = (t mod T)/T; it is -amplitude *)
(* at frac = 0, increases with frac when amplitude > 0, never reaches      *)
(* +amplitude for a frac in [0, 1), and is -amplitude again at the first   *)
(* sample of the next period.                                              *)
C12_Claimed ==
    (sampled.called /\ sampled.type = 4 /\ RLt(Zero, fre_saw))
        => LET frac == FracPart(sampled.t, fre_saw)
           IN  /\ sampled.ret =
                     RAdd(RNeg(amp_saw), RMul(RMul(Two, amp_saw), frac))
               /\ frac = Zero => sampled.ret = RNeg(amp_saw)
               /\ RLt(Zero, amp_saw) =>
                     \A t2 \in Times :
                        RLt(frac, FracPart(t2, fre_saw))
                            => RLt(sampled.ret, SawAt(t2))
               /\ sampled.ret # amp_saw
               /\ SawAt(RDiv(One, fre_saw)) = RNeg(amp_saw)

(* C12 amended: as claimed, but the sample never reaches +amplitude only   *)
(* for an amplitude other than 0; for amplitude 0 every sample is 0, which *)
(* is +amplitude.                                                          *)
C12_Sawtooth ==
    (sampled.called /\ sampled.type = 4 /\ RLt(Zero, fre_saw))
        => LET frac == FracPart(sampled.t, fre_saw)
           IN  /\ sampled.ret =
                     RAdd(RNeg(amp_saw), RMul(RMul(Two, amp_saw), frac))
               /\ frac = Zero => sampled.ret = RNeg(amp_saw)
               /\ RLt(Zero, amp_saw) =>
                     \A t2 \in Times :
                        RLt(frac, FracPart(t2, fre_saw))
                            => RLt(sampled.ret, SawAt(t2))
               /\ amp_saw # Zero => sampled.ret # amp_saw
               /\ amp_saw = Zero => sampled.ret = Zero
               /\ SawAt(RDiv(One, fre_saw)) = RNeg(amp_saw)

C12_Witness ==
    /\ sampled.called
    /\ sampled.type = 4
    /\ fre_saw = One
    /\ amp_saw = Two
    /\ sampled.t = R(23, 16)
    /\ sampled.ret = R(-1, 4)

-----------------------------------------------------------------------------
(* Properties of the displays, checked under SpecDisplay *)

Modulated == display.called /\ display.kind # "plot"

Table == display.res.table

Plot == display.res.plot

TableIdx == 0 .. TABLE_SAMPLES - 1

PlotIdx == 0 .. DEFAULT_SAMPLES - 1

(* the sample buffer was allocated and filled *)
Sampled == display.called /\ DOMAIN Plot = PlotIdx

(* the canvas was allocated and printed *)
Plotted == display.called /\ display.res.grid.ret = "printed"

(* the 8 table lines *)
Tabled == display.called /\ DOMAIN Table = TableIdx

(* every malloc of the display is served: the buffer, the canvas, its rows *)
HeapServes == display.heap >= ASCII_ROWS + 2

IsNormalised(s) ==
    LET A == AmpBase(display.type)
    IN  /\ A # Zero =>
              /\ s.x = RDiv(sample_base_waveform(display.type, s.t), A)
              /\ RLe(RInt(-1), s.x)
              /\ RLe(s.x, One)
        /\ A = Zero => s.x = Zero

(* C13: in run_AM, run_FM and run_PWM, at every sample point and for every *)
(* base kind, the normalised base value is sample/A and lies in [-1, 1]    *)
(* when the amplitude A of the base kind is not 0 (of either sign), and is *)
(* exactly 0 when A is 0; nothing is divided by zero.                      *)
C13_Normalised ==
    Modulated
        => /\ \A i \in DOMAIN Table : IsNormalised(Table[i])
           /\ \A i \in DOMAIN Plot : IsNormalised(Plot[i])
           /\ \A k \in DOMAIN XNormDivisors(display.type) :
                 XNormDivisors(display.type)[k] # Zero

C13_Witness ==
    /\ Modulated /\ Sampled
    /\ display.type = 3
    /\ amp_tra = RInt(-2)
    /\ fre_tra = Two
    /\ display.locals.fc = One
    /\ Plot[25].x = One
    /\ Plot[0].x = RInt(-1)

(* C14: the AM output at t = 0 is 0: for every base kind and parameters    *)
(* and every Ac, fc and m the first table sample and the first plot sample *)
(* of run_AM are taken at t = 0 and equal Ac*(1 + m*xnorm)*sin(0) = 0.     *)
C14_AMStartsAtZero ==
    (display.called /\ display.kind = "AM")
        => /\ Tabled
           /\ Table[0].t = Zero
           /\ Table[0].y = Zero
           /\ Table[0].y =
                 RMul(RMul(display.locals.Ac,
                           RAdd(One, RMul(display.locals.idx, Table[0].x))),
                      sinf(Zero))
           /\ Sampled => /\ Plot[0].t = Zero
                         /\ Plot[0].y = Zero

(* the example of the spec: Ac = 1, fc = 1, m = 0.5 on the sine f = 1, *)
(* amplitude 1, phase 0                                                *)
C14_Witness ==
    /\ display.called /\ display.kind = "AM" /\ Sampled
    /\ display.locals = [Ac |-> One, fc |-> One, idx |-> Half]
    /\ display.type = 1
    /\ fre_sin = One /\ amp_sin = One /\ phase_sin = Zero
    /\ Table[0].x = Zero
    /\ Plot[0].y = Zero
    /\ Plot[25].y = R(3, 2)

(* the triangular reference of sample i of n: -1 + 2 * i/n *)
RefOf(i, n) == RAdd(RInt(-1), R(2 * i, n))

IsSwitched(s, i, n, strict) ==
    LET Ac == display.locals.Ac
    IN  /\ s.y = Ac \/ s.y = RNeg(Ac)
        /\ TriRef(s.t, display.res.period) = RefOf(i, n)
        /\ RLt(RefOf(i, n), s.x) => s.y = Ac
        /\ ~RLt(RefOf(i, n), s.x) => s.y = RNeg(Ac)
        /\ (strict \/ Ac # Zero) => (s.y = Ac <=> RLt(RefOf(i, n), s.x))

(* C15 as claimed: every PWM output sample, of the table and of the plot,  *)
(* is +Ac or -Ac; it is +Ac exactly when the normalised base value is      *)
(* greater than -1 + 2*carrier_frac, where carrier_frac is i/N for sample  *)
(* i of N, and -Ac otherwise, also when the two are equal.                 *)
C15_Claimed ==
    (display.called /\ display.kind = "PWM")
        => /\ \A i \in DOMAIN Table :
                 IsSwitched(Table[i], i, TABLE_SAMPLES, TRUE)
           /\ \A i \in DOMAIN Plot :
                 IsSwitched(Plot[i], i, DEFAULT_SAMPLES, TRUE)

(* C15 amended: every PWM output sample is +Ac when the normalised base    *)
(* value is greater than -1 + 2*i/N and -Ac otherwise, also when the two   *)
(* are equal; for Ac other than 0 it is +Ac exactly in the first case (for *)
(* Ac = 0 every sample is 0, which is both).                               *)
C15_Comparator ==
    (display.called /\ display.kind = "PWM")
        => /\ Tabled
           /\ \A i \in DOMAIN Table :
                 IsSwitched(Table[i], i, TABLE_SAMPLES, FALSE)
           /\ \A i \in DOMAIN Plot :
                 IsSwitched(Plot[i], i, DEFAULT_SAMPLES, FALSE)

(* a triangle of amplitude 1 starts at -1, which equals the reference *)
C15_Witness ==
    /\ display.called /\ display.kind = "PWM" /\ Sampled
    /\ display.type = 3
    /\ amp_tra = One
    /\ display.locals.Ac = One
    /\ Table[0].x = RInt(-1)
    /\ Table[0].y = RInt(-1)
    /\ \E i \in PlotIdx : Plot[i].y = One

(* the table has n lines at the times i * P / n *)
TimesAre(samples, n, P, shift) ==
    /\ DOMAIN samples = 0 .. n - 1
    /\ \A i \in 0 .. n - 1 :
          samples[i].t = RAdd(RDiv(RMul(RInt(i), P), RInt(n)), shift)

(* the grid has 21 lines of 100 cells *)
GridIs21x100 ==
    /\ Plotted
    /\ Len(display.res.grid.lines) = ASCII_ROWS
    /\ \A r \in 1 .. ASCII_ROWS :
          Len(display.res.grid.lines[r]) = DEFAULT_SAMPLES

(* C16 as claimed: in run_AM, run_FM and run_PWM a carrier or switching    *)
(* frequency <= 0 gives the period 1, the table times i/8 and the plot     *)
(* times i/100, and the run still produces the 8 table lines and a plot of *)
(* 21 x 100; a frequency > 0 gives the period 1/frequency.                 *)
C16_Claimed ==
    Modulated
        => /\ RLe(display.locals.fc, Zero)
                 => /\ display.res.period = One
                    /\ TimesAre(Table, TABLE_SAMPLES, One, Zero)
                    /\ TimesAre(Plot, DEFAULT_SAMPLES, One, Zero)
                    /\ GridIs21x100
           /\ RLt(Zero, display.locals.fc)
                 => display.res.period = RDiv(One, display.locals.fc)

(* C16 amended: as claimed, but the plot of 21 x 100 is produced only when *)
(* no malloc fails: without the sample buffer the run ends after the table *)
(* with no plot sample, without the canvas no grid is printed.             *)
C16_PeriodFallback ==
    Modulated
        => /\ RLe(display.locals.fc, Zero)
                 => /\ display.res.period = One
                    /\ TimesAre(Table, TABLE_SAMPLES, One, Zero)
                    /\ display.heap >= 1
                          => TimesAre(Plot, DEFAULT_SAMPLES, One, Zero)
                    /\ display.heap = 0 => Plot = <<>>
                    /\ HeapServes <=> GridIs21x100
           /\ RLt(Zero, display.locals.fc)
                 => display.res.period = RDiv(One, display.locals.fc)

C16_Witness ==
    /\ Modulated /\ GridIs21x100
    /\ display.kind = "FM"
    /\ display.locals.fc = RInt(-2)
    /\ display.res.period = One
    /\ Table[7].t = R(7, 8)
    /\ Plot[99].t = R(99, 100)

(* a display is produced: the request was not rejected for its frequency *)
Displayed == display.called /\ display.res.out # <<FreqError>>

(* the frequency that drives the display *)
DrivingFreq ==
    IF display.kind = "plot" THEN FreOf(display.type) ELSE display.locals.fc

(* one period of the driving frequency; the period used where there is    *)
(* none                                                                   *)
P == IF RLt(Zero, DrivingFreq) THEN RDiv(One, DrivingFreq)
                               ELSE display.res.period

SinePlot == display.kind = "plot" /\ display.type = 1

TimesWithin(samples) ==
    \A i \in DOMAIN samples : RLe(Zero, samples[i].t) /\ RLt(samples[i].t, P)

(* C17 as claimed: every display, primary or modulated, produces exactly 8 *)
(* table samples at the times i*P/8 and exactly 100 plot samples over the  *)
(* same period P on a canvas of 21 rows; the table times lie in [0, P),    *)
(* and except in the unmodulated sine plot the plot times are exactly      *)
(* i*P/100, never P.                                                       *)
C17_Claimed ==
    Displayed
        => /\ TimesAre(Table, TABLE_SAMPLES, P, Zero)
           /\ TimesWithin(Table)
           /\ Sampled
           /\ GridIs21x100
           /\ ~SinePlot => /\ TimesAre(Plot, DEFAULT_SAMPLES, P, Zero)
                           /\ TimesWithin(Plot)

(* C17 amended: as claimed, but the 100 plot samples are produced only     *)
(* when malloc serves the sample buffer, and the canvas of 21 rows only    *)
(* when it also serves the canvas; otherwise there is no plot sample,      *)
(* respectively no grid.                                                   *)
C17_SampleGrid ==
    Displayed
        => /\ TimesAre(Table, TABLE_SAMPLES, P, Zero)
           /\ TimesWithin(Table)
           /\ display.heap >= 1 <=> Sampled
           /\ display.heap = 0 => Plot = <<>>
           /\ HeapServes <=> GridIs21x100
           /\ (Sampled /\ ~SinePlot)
                 => /\ TimesAre(Plot, DEFAULT_SAMPLES, P, Zero)
                    /\ TimesWithin(Plot)

C17_Witness ==
    /\ Displayed /\ GridIs21x100
    /\ display.kind = "plot"
    /\ display.type = 2
    /\ fre_squ = Two
    /\ Table[7].t = R(7, 16)
    /\ Plot[99].t = R(99, 200)

(* C18: in the unmodulated sine display with frequency f > 0, table sample *)
(* i has the angle 2*PI*f*t_i + phase and plot sample i the angle          *)
(* 2*PI*f*(i*P/100 + phase/(2*PI*f)) without a phase term; that angle      *)
(* equals 2*PI*f*(i*P/100) + phase, so plot sample 0 equals the table      *)
(* sample at t = 0, amplitude*sin(phase), and the plot shows the signal of *)
(* the table.                                                              *)
C18_SinePhase ==
    (Displayed /\ SinePlot /\ RLt(Zero, fre_sin))
        => LET w     == RMul(Two, fre_sin)
               shift == RDiv(phase_sin, w)
           IN  /\ \A i \in TableIdx :
                     Table[i].y =
                        RMul(amp_sin, sinf(RAdd(RMul(w, Table[i].t), phase_sin)))
               /\ Table[0].y = RMul(amp_sin, sinf(phase_sin))
               /\ Sampled
                     => /\ TimesAre(Plot, DEFAULT_SAMPLES, P, shift)
                        /\ \A i \in PlotIdx :
                              /\ Plot[i].y =
                                    RMul(amp_sin, sinf(RMul(w, Plot[i].t)))
                              /\ RMul(w, Plot[i].t) =
                                    RAdd(RMul(w, RDiv(RMul(RInt(i), P),
                                                      RInt(DEFAULT_SAMPLES))),
                                         phase_sin)
                              /\ Plot[i].y =
                                    RMul(amp_sin,
                                         sinf(RAdd(RMul(w, RSub(Plot[i].t, shift)),
                                                   phase_sin)))
                        /\ Plot[0].y = Table[0].y

(* the example of the spec: phase PI/2 and f = 1 *)
C18_Witness ==
    /\ Displayed /\ SinePlot /\ Sampled
    /\ fre_sin = One
    /\ phase_sin = Half
    /\ amp_sin = RInt(-2)
    /\ Table[0].y = RInt(-2)
    /\ Plot[0].t = R(1, 4)
    /\ Plot[0].y = RInt(-2)

(* C22: the slope of the sawtooth influences no output: two runs of the    *)
(* same display on the sawtooth, primary or AM, FM, PWM, with the same     *)
(* parameters except the slope give the same table values, the same plot   *)
(* samples and the same grid.                                              *)
C22_SlopeUnused ==
    (display.called /\ display.again)
        => /\ display.type = 4
           /\ slope # One
           /\ display.res = display.prev

C22_Witness ==
    /\ display.called
    /\ display.type = 4
    /\ display.kind = "AM"
    /\ display.again
    /\ slope = Two
    /\ amp_saw = RInt(-2)
    /\ Plotted
    /\ Table[4].x = Zero

(* the scale the claim names for the modulation *)
PeakOf ==
    IF display.kind = "AM"
    THEN RMul(display.locals.Ac, RAdd(One, RAbs(display.locals.idx)))
    ELSE display.locals.Ac

(* C23: the scale passed to the renderer bounds every plot sample of a     *)
(* modulation: |y| <= |Ac*(1 + |m|)| for AM and |y| <= |Ac| for FM and     *)
(* PWM, for every base kind, Ac, m and beta; so the clamp of frac to       *)
(* [0, 1] never changes the row of a sample of a modulated plot.           *)
C23_ScaleIsPeak ==
    (Modulated /\ Sampled)
        => /\ display.res.amp = PeakOf
           /\ \A i \in PlotIdx :
                 /\ RLe(RAbs(Plot[i].y), RAbs(PeakOf))
                 /\ ClampFrac(FracOf(Plot[i].y, display.res.amp))
                       = FracOf(Plot[i].y, display.res.amp)
                 /\ Plotted
                       => display.res.grid.rowidx[i + 1]
                             = ToInt(RAdd(RMul(FracOf(Plot[i].y, display.res.amp),
                                               RInt(ASCII_ROWS - 1)),
                                          Half))

(* AM of a square that is always high: the sample at the carrier's crest *)
(* reaches the scale 1.5 and is drawn on the top row                     *)
C23_Witness ==
    /\ Modulated /\ Plotted
    /\ display.kind = "AM"
    /\ display.type = 2
    /\ duty_cycle = One
    /\ amp_squ = One
    /\ display.locals = [Ac |-> One, fc |-> One, idx |-> Half]
    /\ display.res.amp = R(3, 2)
    /\ Plot[25].y = R(3, 2)
    /\ display.res.grid.rowidx[26] = 0

-----------------------------------------------------------------------------
(* Properties of the stored parameters, checked under Spec *)

(* what the claim says is stored for the duty cycle typed *)
DutyStored(tok) ==
    IF ~tok.ok THEN Half
    ELSE IF RLt(tok.val, Zero) THEN Zero
    ELSE IF RLt(One, tok.val) THEN One
    ELSE tok.val

(* the square is about to be sampled: in square_plot or in a modulation *)
SquareInUse == waveform_type = 2 /\ pc \in {"plot", "modulation_menu"}

(* C19: the stored duty cycle starts at 0.5; a square configuration stores *)
(* 0 for a parsed input below 0, 1 for one above 1 and 0.5 for an input    *)
(* that cannot be parsed; no other operation changes it; so after any      *)
(* sequence of menu operations, whenever the square is sampled, it lies in *)
(* [0, 1].                                                                 *)
C19_DutyClamped ==
    /\ duty_cycle = Half
    /\ [][/\ (pc = "configure" /\ waveform_type = 2)
                => \E d \in DutyToks : duty_cycle' = DutyStored(d)
          /\ ~(pc = "configure" /\ waveform_type = 2)
                => duty_cycle' = duty_cycle
          /\ RLe(Zero, duty_cycle') /\ RLe(duty_cycle', One)
          /\ SquareInUse' => RLe(Zero, duty_cycle') /\ RLe(duty_cycle', One)
         ]_vars

(* a duty cycle typed as 1.5 is 1 when a modulation samples the square *)
C19_Witness ==
    /\ SquareInUse
    /\ pc = "modulation_menu"
    /\ duty_cycle = One
    /\ depth = 2

(* the locals a modulation run must end up with: the number typed or, for *)
(* no number, the initial value of the declaration                        *)
LocalsFromDefaults(d) ==
    /\ d.locals.Ac = (IF d.toks.Ac.ok THEN d.toks.Ac.val ELSE One)
    /\ d.locals.fc = (IF d.toks.fc.ok THEN d.toks.fc.val
                      ELSE IF d.kind = "PWM" THEN RInt(50) ELSE One)
    /\ d.kind = "AM" =>
          d.locals.idx = (IF d.toks.idx.ok THEN d.toks.idx.val ELSE Half)
    /\ d.kind = "FM" =>
          d.locals.idx = (IF d.toks.idx.ok THEN d.toks.idx.val ELSE One)

(* C20: no *_plot function and no modulation run, with the sampling and    *)
(* rendering they do, changes a stored waveform parameter; a configuration *)
(* step changes only the parameters of its kind (sine: frequency,          *)
(* amplitude, phase; square: frequency, amplitude, duty cycle; triangle:   *)
(* frequency, amplitude; sawtooth: amplitude, slope); the modulation       *)
(* parameters Ac, fc, m, beta, fpwm start from their defaults in every     *)
(* run, whatever an earlier run used.                                      *)
C20_Frame ==
    [][/\ pc # "configure" => params' = params
       /\ (pc = "configure" /\ waveform_type = 1)
             => UNCHANGED <<fre_squ, fre_saw, fre_tra, amp_squ, amp_saw,
                            amp_tra, duty_cycle, slope>>
       /\ (pc = "configure" /\ waveform_type = 2)
             => UNCHANGED <<fre_sin, fre_saw, fre_tra, amp_sin, amp_saw,
                            amp_tra, phase_sin, slope>>
       /\ (pc = "configure" /\ waveform_type = 3)
             => UNCHANGED <<fre_sin, fre_squ, fre_saw, amp_sin, amp_squ,
                            amp_saw, phase_sin, duty_cycle, slope>>
       /\ (pc = "configure" /\ waveform_type = 4)
             => UNCHANGED <<fre_sin, fre_squ, fre_saw, fre_tra, amp_sin,
                            amp_squ, amp_tra, phase_sin, duty_cycle>>
       /\ (pc = "modulation_menu" /\ display'.called)
             => LocalsFromDefaults(display')
      ]_vars

(* a second run, after a sine and a sawtooth configuration, that is given *)
(* no number starts from the defaults                                     *)
C20_Witness ==
    /\ depth = 2
    /\ pc = "go_back"
    /\ display.called
    /\ display.kind = "PWM"
    /\ display.toks = NoToks
    /\ display.locals = [Ac |-> One, fc |-> RInt(50), idx |-> Zero]
    /\ waveform_type = 4
    /\ amp_saw = Zero /\ slope = Two /\ fre_saw = One
    /\ amp_sin = Zero /\ phase_sin = Half

-----------------------------------------------------------------------------
(* Properties of the primary displays, checked under Spec *)

(* C8 as claimed: a *_plot function whose frequency is <= 0 prints the     *)
(* failure 'Frequency must be > 0!' and no table, plot or modulation       *)
(* prompt and leaves the stored parameters unchanged; with a frequency > 0 *)
(* it always prints the table and then the plot.                           *)
C8_Claimed ==
    [][pc = "plot" =>
         IF RLe(FreOf(waveform_type), Zero)
         THEN out' = <<FreqError>> /\ pc' = "go_back" /\ params' = params
         ELSE Len(out') >= 2 /\ SubSeq(out', 1, 2) = <<"table", "plot">>]_vars

(* C8 amended: with a frequency <= 0 as claimed; with a frequency > 0 the  *)
(* function always prints the table, and then the plot grid and the        *)
(* modulation prompt unless malloc fails for the sample buffer (the        *)
(* function returns after the table) or for the canvas (no grid).          *)
C8_FrequencyCheck ==
    [][pc = "plot" =>
         IF RLe(FreOf(waveform_type), Zero)
         THEN out' = <<FreqError>> /\ pc' = "go_back" /\ params' = params
         ELSE /\ params' = params
              /\ \/ out' = <<"table", "plot", "prompt">>
                         /\ pc' = "modulation_prompt"
                 \/ out' = <<"table", "perror malloc yval">>
                         /\ pc' = "go_back"
                 \/ out' = <<"table", "perror malloc canvas", "prompt">>
                         /\ pc' = "modulation_prompt"]_vars

C8_Witness ==
    /\ pc = "go_back"
    /\ depth = 2
    /\ waveform_type = 2
    /\ fre_squ = Zero
    /\ out = <<FreqError>>
    /\ RLt(Zero, fre_sin)

-----------------------------------------------------------------------------
(* Properties of the session as a whole, checked under Spec *)

(* C24: whenever the modulation prompt or the modulation menu of base     *)
(* kind k is open, and whenever run_AM, run_FM or run_PWM has run for     *)
(* base kind k, the stored frequency of kind k is > 0, so the sampler's   *)
(* fallback for a frequency <= 0 is never taken during a session.         *)
C24_RunHasFrequency ==
    /\ pc \in {"modulation_prompt", "modulation_menu"}
          => waveform_type \in 1 .. 4 /\ RLt(Zero, FreOf(waveform_type))
    /\ display.called
          => /\ display.type = waveform_type
             /\ display.type \in 1 .. 4
             /\ RLt(Zero, FreOf(display.type))

(* an FM run on the triangle while the sine, configured in the cycle      *)
(* before, has the frequency 0                                            *)
C24_Witness ==
    /\ display.called
    /\ display.kind = "FM"
    /\ waveform_type = 3
    /\ fre_tra = One
    /\ fre_sin = Zero
    /\ depth = 2

(* C25 as claimed: every sample buffer of a display operation is released *)
(* before the main menu is shown again, on every path after the           *)
(* modulation prompt, the path through a modulation run included: no      *)
(* buffer is allocated when the main menu appears.                        *)
C25_Claimed == pc = "main_menu" => ~yval

(* C26 as claimed: after a waveform was selected the main menu is shown   *)
(* again only after the user entered a token that starts with b or B at   *)
(* the go-back prompt, on every path.                                     *)
C26_Claimed == (pc = "main_menu" /\ depth > 1) => back \in {"b", "B"}

(* C27: the stored sawtooth frequency is 1 in every reachable state, so   *)
(* the times of the sawtooth table are i/8 and sawtooth_plot never prints *)
(* 'Frequency must be > 0!'.                                              *)
C27_SawFrequencyIsOne ==
    /\ fre_saw = One
    /\ TableTimes(RDiv(One, fre_saw))
          = [i \in 0 .. TABLE_SAMPLES - 1 |-> R(i, TABLE_SAMPLES)]
    /\ waveform_type = 4 => \A i \in 1 .. Len(out) : out[i] # FreqError

(* the sawtooth plotted after a configuration that set jump amplitude and *)
(* slope, in a session whose triangle has the frequency 0                 *)
C27_Witness ==
    /\ pc = "modulation_prompt"
    /\ waveform_type = 4
    /\ out = <<"table", "plot", "prompt">>
    /\ amp_saw = Zero
    /\ slope = Two
    /\ fre_tra = Zero
    /\ fre_saw = One

(* C28: main_menu never returns to main: the main menu is left only with  *)
(* a selection in 1..4, it is entered again only from go_back_to_main,    *)
(* and then as a new activation, so the number of active main_menu        *)
(* activations never decreases and grows by one with every completed      *)
(* menu cycle.                                                            *)
C28_NeverReturns ==
    [][/\ pc' # "returned"
       /\ depth' >= depth
       /\ (pc = "main_menu" /\ pc' # "main_menu")
             => pc' = "configure" /\ waveform_type' \in 1 .. 4
       /\ (pc # "main_menu" /\ pc' = "main_menu")
             => pc = "go_back" /\ depth' = depth + 1
       /\ pc' # "main_menu" => depth' = depth
      ]_vars

(* the main menu entered a second time, after a cycle that ran a          *)
(* modulation                                                             *)
C28_Witness ==
    /\ pc = "main_menu"
    /\ depth = 2
    /\ back = "B"
    /\ yval
    /\ waveform_type = 2

=============================================================================
